---- MODULE Spec2Model ----
(***************************************************************************)
(* A model of the edgedb-js wire-codec layer:                              *)
(*   - RingBuffer            (ring buffer queue: enq / deq / clear)        *)
(*   - DecimalCodec          (src/codecs/numerics.ts)                      *)
(*   - BigIntCodec           (src/codecs/numerics.ts)                      *)
(*   - ArrayCodec            (src/codecs/array.ts)                         *)
(*   - runTypegen, walkCodec (type generation driver and tree walker)      *)
(* Each component has its own specification over the shared variables; a   *)
(* specification leaves the variables of the other components idle.        *)
(***************************************************************************)
EXTENDS Integers, Sequences, FiniteSets, TLC

VARIABLES
  \* RingBuffer fields
  buffer, len, reader, writer, capacity,
  \* the caller of the RingBuffer: the last call, its argument and result,
  \* the state it was made in, and a reference unbounded FIFO fed the same calls
  lastOp, arg, ret, pre, fifo, nOps,
  \* a numeric codec call: the value handed to encode, the buffer's contents and
  \* who wrote them (encode, or the server), what decode returned, the error
  \* thrown, and the call's position
  object, wbuf, origin, decoded, error, numPc,
  \* an ArrayCodec and a call of it: the codec's len, the ReadBuffer's contents,
  \* what decode returned, the error thrown, and the call's position; for a
  \* call of encode, whether the element codec is scalar, the value handed to
  \* encode, and the bytes the WriteBuffer holds
  codecLen, rbuf, arrResult, arrError, arrPc, subCodecIsScalar, obj, ebuf,
  \* a run of runTypegen: where it is suspended, the files matched, the
  \* connection, the loop's position, the files handed to processEdgeQLFile and
  \* how each call ended, and what was written to the console
  genPc, matches, conn, idx, attempted, outcomes, stdout,
  \* a call of walkCodec: the codec, the imports set it is handed, the lines it
  \* returned, the error thrown, and the call's position
  codec, imports, fragment, walkError, walkPc

rbVars == <<buffer, len, reader, writer, capacity, lastOp, arg, ret, pre, fifo, nOps>>
numVars == <<object, wbuf, origin, decoded, error, numPc>>

arrVars == <<codecLen, rbuf, arrResult, arrError, arrPc, subCodecIsScalar, obj, ebuf>>

genVars == <<genPc, matches, conn, idx, attempted, outcomes, stdout>>

walkVars == <<codec, imports, fragment, walkError, walkPc>>

vars == <<rbVars, numVars, arrVars, genVars, walkVars>>

(***************************************************************************)
(* RingBuffer                                                              *)
(***************************************************************************)

\* largest initial capacity handed to the constructor
MaxCapacity == 3
\* number of enq/deq/clear calls made by the caller
MaxOps == 7

\* the value of an empty slot and the result of deq on reader === writer
Undefined == 0

\* constructor: new Array(capacity), every slot empty
NewBuffer(c) == [i \in 0..(c - 1) |-> Undefined]

\* the pending items, oldest first: len slots from reader onward, mod capacity
Pending == [i \in 1..len |-> buffer[(reader + i - 1) % capacity]]

\* the for loop of _resize: slots i..inc-1 move up by inc
RECURSIVE ResizeLoop(_, _, _)
ResizeLoop(b, i, inc) ==
  IF i < inc
    THEN ResizeLoop([b EXCEPT ![i + inc] = b[i], ![i] = Undefined], i + 1, inc)
    ELSE b

\* a slip in _resize: the loop starts at slot 0 instead of slot reader
ResizeFromZero(b, r, c) ==
  [buffer   |-> ResizeLoop([i \in 0..(2 * c - 1) |-> IF i < c THEN b[i] ELSE Undefined], 0, c),
   reader   |-> r + c,
   capacity |-> 2 * c]

\* _resize: capacity doubles, buffer.length grows, the slots from reader to
\* the old end move to the new end, reader follows them
Resize(b, r, c) ==
  [buffer   |-> ResizeLoop([i \in 0..(2 * c - 1) |-> IF i < c THEN b[i] ELSE Undefined], r, c),
   reader   |-> r + c,
   capacity |-> 2 * c]

\* what the caller records of the state a call is made in
Snapshot ==
  [pending |-> Pending, capacity |-> capacity, len |-> len,
   saturated |-> (reader = writer /\ len > 0), reader |-> reader, fifo |-> fifo]

\* enq(data)
enq(data) ==
  /\ nOps < MaxOps
  /\ LET rs == IF reader = writer /\ len > 0
                 THEN Resize(buffer, reader, capacity)
                 ELSE [buffer |-> buffer, reader |-> reader, capacity |-> capacity]
     IN /\ buffer' = [rs.buffer EXCEPT ![writer] = data]
        /\ writer' = (writer + 1) % rs.capacity
        /\ reader' = rs.reader
        /\ capacity' = rs.capacity
        /\ len' = len + 1
  /\ lastOp' = "enq" /\ arg' = data /\ ret' = Undefined
  /\ pre' = Snapshot
  /\ fifo' = Append(fifo, data)
  /\ nOps' = nOps + 1

\* deq()
deq ==
  /\ nOps < MaxOps
  /\ IF reader = writer
       THEN /\ ret' = Undefined
            /\ UNCHANGED <<buffer, reader, len>>
       ELSE /\ ret' = buffer[reader]
            /\ buffer' = [buffer EXCEPT ![reader] = Undefined]
            /\ reader' = (reader + 1) % capacity
            /\ len' = len - 1
  /\ UNCHANGED <<writer, capacity>>
  /\ lastOp' = "deq" /\ arg' = Undefined
  /\ pre' = Snapshot
  /\ fifo' = IF fifo = <<>> THEN fifo ELSE Tail(fifo)
  /\ nOps' = nOps + 1

\* the while loop of clear: empties the slots from reader up to writer
RECURSIVE ClearLoop(_, _, _, _)
ClearLoop(b, r, w, c) ==
  IF r # w THEN ClearLoop([b EXCEPT ![r] = Undefined], (r + 1) % c, w, c) ELSE b

\* clear()
clear ==
  /\ nOps < MaxOps
  /\ buffer' = IF len # 0 THEN ClearLoop(buffer, reader, writer, capacity) ELSE buffer
  /\ reader' = 0
  /\ writer' = 0
  /\ len' = 0
  /\ UNCHANGED capacity
  /\ lastOp' = "clear" /\ arg' = Undefined /\ ret' = Undefined
  /\ pre' = Snapshot
  /\ fifo' = <<>>
  /\ nOps' = nOps + 1

\* the state after new RingBuffer({capacity}), capacity accepted by the constructor
RingBufferInit ==
  /\ capacity \in 1..MaxCapacity
  /\ buffer = NewBuffer(capacity)
  /\ reader = 0
  /\ writer = 0
  /\ len = 0
  /\ lastOp = "new" /\ arg = Undefined /\ ret = Undefined
  /\ pre = [pending |-> <<>>, capacity |-> capacity, len |-> 0, saturated |-> FALSE, reader |-> 0,
            fifo |-> <<>>]
  /\ fifo = <<>>
  /\ nOps = 0


(***************************************************************************)
(* Strings: a string is a sequence of one-character strings.  The          *)
(* operators below are the String.prototype methods the codecs call.       *)
(***************************************************************************)

DigitChars == <<"0", "1", "2", "3", "4", "5", "6", "7", "8", "9">>

IsDigit(c) == \E d \in 1..10 : DigitChars[d] = c

DigitVal(c) == (CHOOSE d \in 1..10 : DigitChars[d] = c) - 1

Min(a, b) == IF a < b THEN a ELSE b

Max(a, b) == IF a > b THEN a ELSE b

\* s.slice(a, b): a negative index counts from the end, both are clamped
Slice(s, a, b) ==
  LET from == IF a < 0 THEN Max(Len(s) + a, 0) ELSE Min(a, Len(s))
      to   == IF b < 0 THEN Max(Len(s) + b, 0) ELSE Min(b, Len(s))
  IN IF to <= from THEN <<>> ELSE SubSeq(s, from + 1, to)

\* s.slice(a), and s.slice(a, undefined)
SliceFrom(s, a) == Slice(s, a, Len(s))

\* c.repeat(n)
Repeat(c, n) == IF n <= 0 THEN <<>> ELSE [i \in 1..n |-> c]

\* s.padStart(n, c)
PadStart(s, n, c) == Repeat(c, n - Len(s)) \o s

\* s.padEnd(n, c)
PadEnd(s, n, c) == s \o Repeat(c, n - Len(s))

\* parseInt(s, 10) of a string of digits
RECURSIVE ParseInt(_)
ParseInt(s) ==
  IF s = <<>> THEN 0
  ELSE 10 * ParseInt(SubSeq(s, 1, Len(s) - 1)) + DigitVal(s[Len(s)])

\* n.toString() of an integer n >= 0
RECURSIVE NumToString(_)
NumToString(n) ==
  IF n < 10 THEN <<DigitChars[n + 1]>>
  ELSE Append(NumToString(n \div 10), DigitChars[(n % 10) + 1])

\* s.replace(/^0+/, '')
RECURSIVE StripLeadingZeros(_)
StripLeadingZeros(s) ==
  IF s # <<>> /\ s[1] = "0" THEN StripLeadingZeros(Tail(s)) ELSE s

\* Math.ceil(n / 4) * 4
CeilToGroup(n) == ((n + 3) \div 4) * 4

(***************************************************************************)
(* WriteBuffer / ReadBuffer: the buffer is the sequence of the 16-bit words *)
(* written, most significant first, each held as its unsigned value.       *)
(***************************************************************************)

\* 2^16, the modulus of a 16-bit field
Word == 65536

WriteUInt16(buf, v) == Append(buf, v % Word)

\* two's complement
WriteInt16(buf, v) == Append(buf, (v + Word) % Word)

\* two words, the high one first
WriteUInt32(buf, v) == buf \o <<(v \div Word) % Word, v % Word>>

\* what follows the 4-byte length in a buffer
AfterLength(buf) == SubSeq(buf, 3, Len(buf))

ReadInt16(u) == IF u >= Word \div 2 THEN u - Word ELSE u

\* the header fields and digit groups of the buffer's payload
PayloadNdigits == AfterLength(wbuf)[1]
PayloadWeight == ReadInt16(AfterLength(wbuf)[2])
PayloadSign == AfterLength(wbuf)[3]
PayloadDscale == AfterLength(wbuf)[4]
PayloadGroups == SubSeq(AfterLength(wbuf), 5, Len(AfterLength(wbuf)))


NUMERIC_POS == 0

NUMERIC_NEG == 16384

(***************************************************************************)
(* DecimalCodec                                                            *)
(***************************************************************************)

\* decimalRegex = /^([+-]?)0*(\d+).(\d+)$/ : the split of s after its sign
\* into z zeros, i digits, one character of any kind, and digits to the end
RegexSplits(r) ==
  {zi \in (0..Len(r)) \X (1..Len(r)) :
     /\ zi[1] + zi[2] + 2 <= Len(r)
     /\ \A k \in 1..zi[1] : r[k] = "0"
     /\ \A k \in (zi[1] + 1)..(zi[1] + zi[2]) : IsDigit(r[k])
     /\ \A k \in (zi[1] + zi[2] + 2)..Len(r) : IsDigit(r[k])}

\* object.match(decimalRegex): 0* is greedy, then (\d+) is greedy
RegexMatch(s) ==
  LET signLen == IF s # <<>> /\ s[1] \in {"+", "-"} THEN 1 ELSE 0
      r       == SubSeq(s, signLen + 1, Len(s))
      splits  == RegexSplits(r)
  IN IF splits = {} THEN [matched |-> FALSE]
     ELSE LET z == CHOOSE z \in {zi[1] : zi \in splits} :
                     \A zi \in splits : zi[1] <= z
              i == CHOOSE i \in {zi[2] : zi \in {x \in splits : x[1] = z}} :
                     \A zi \in {x \in splits : x[1] = z} : zi[2] <= i
          IN [matched |-> TRUE,
              sign    |-> SubSeq(s, 1, signLen),
              int     |-> SubSeq(r, z + 1, z + i),
              frac    |-> SubSeq(r, z + i + 2, Len(r))]

\* the for loop of encode: 4-digit groups of digitStr from its end; the zero
\* groups before the first non-zero one are skipped
RECURSIVE EncodeLoop(_, _, _, _)
EncodeLoop(digitStr, i, digits, lastNonZero) ==
  IF i < Len(digitStr)
    THEN LET n == ParseInt(IF i = 0 THEN SliceFrom(digitStr, -4)
                                    ELSE Slice(digitStr, -i - 4, -i))
             push == n # 0 \/ (digits # <<>> /\ digits[1] # 0)
             ds == IF push THEN Append(digits, n) ELSE digits
         IN EncodeLoop(digitStr, i + 4, ds,
                       IF push /\ n # 0 THEN Len(ds) ELSE lastNonZero)
    ELSE [digits |-> digits, lastNonZero |-> lastNonZero]

\* a slip in encode: the fractional digits not padded to whole groups
DigitStrUnpadded(int, frac) == int \o frac

\* int + frac.padEnd(Math.ceil(frac.length/4)*4, '0')
DigitStr(int, frac) == int \o PadEnd(frac, CeilToGroup(Len(frac)), "0")

\* trailing zeros removed
RECURSIVE StripTrailingZeros(_)
StripTrailingZeros(s) ==
  IF s # <<>> /\ s[Len(s)] = "0" THEN StripTrailingZeros(SubSeq(s, 1, Len(s) - 1)) ELSE s

\* a slip in encode: the scale inferred from the digits that remain
DscaleTrimmed(frac) == Len(StripTrailingZeros(frac))

\* the dscale field: frac.length
Dscale(frac) == Len(frac)

\* the digit groups are written from digits.length - 1 down to 0
RECURSIVE WriteDigits(_, _, _)
WriteDigits(buf, digits, i) ==
  IF i >= 1 THEN WriteDigits(WriteUInt16(buf, digits[i]), digits, i - 1) ELSE buf

\* DecimalCodec.encode(buf, object) on an empty buffer
DecimalEncode(str) ==
  LET parsed == RegexMatch(str)
  IN IF ~parsed.matched
       THEN [error |-> "invalid decimal string", buf |-> <<>>]
       ELSE
         LET digitStr == DigitStr(parsed.int, parsed.frac)
             loop     == EncodeLoop(digitStr, 0, <<>>, 0)
             strip    == loop.lastNonZero # Len(loop.digits)
             weight   == IF strip THEN loop.lastNonZero - Len(loop.digits)
                                  ELSE (Len(parsed.int) - 1) \div 4
             digits   == IF strip THEN SubSeq(loop.digits, 1, loop.lastNonZero)
                                  ELSE loop.digits
             b1 == WriteUInt32(<<>>, 8 + Len(digits) * 2)
             b2 == WriteUInt16(b1, Len(digits))
             b3 == WriteInt16(b2, weight)
             b4 == WriteUInt16(b3, IF parsed.sign = <<"-">> THEN NUMERIC_NEG ELSE NUMERIC_POS)
             b5 == WriteUInt16(b4, Dscale(parsed.frac))
         IN [error |-> "", buf |-> WriteDigits(b5, digits, Len(digits))]

\* the for loop of decode: each group read is appended as 4 digits
RECURSIVE ReadGroups(_, _, _, _)
ReadGroups(digits, groups, i, ndigits) ==
  IF i < ndigits
    THEN ReadGroups(digits \o PadStart(NumToString(groups[i + 1]), 4, "0"),
                    groups, i + 1, ndigits)
    ELSE digits

\* digits.padEnd(digitsLength, "0") or digits.slice(0, digitsLength)
FitDigits(digits, digitsLength) ==
  IF Len(digits) < digitsLength
    THEN PadEnd(digits, digitsLength, "0")
    ELSE Slice(digits, 0, digitsLength)

\* DecimalCodec.decode(buf): buf holds the header and the digit groups
DecimalDecode(buf) ==
  LET ndigits == buf[1]
      weight  == ReadInt16(buf[2])
      sign    == buf[3]
      dscale  == buf[4]
      groups  == SubSeq(buf, 5, Len(buf))
  IN IF sign # NUMERIC_NEG /\ sign # NUMERIC_POS
       THEN [error |-> "bad bigint sign data", value |-> <<>>]
       ELSE
         LET read   == ReadGroups(IF weight < 0 THEN Repeat("0", (weight + 1) * (-4)) ELSE <<>>,
                                  groups, 0, ndigits)
             digitsLength == dscale + (IF weight >= 0 THEN (weight + 1) * 4 ELSE 0)
             digits == FitDigits(read, digitsLength)
             int    == StripLeadingZeros(Slice(digits, 0, -dscale))
         IN [error |-> "",
             value |-> (IF sign = NUMERIC_NEG THEN <<"-">> ELSE <<>>)
                       \o (IF int = <<>> THEN <<"0">> ELSE int)
                       \o <<".">> \o SliceFrom(digits, -dscale)]

(***************************************************************************)
(* ArrayCodec.  A ReadBuffer is the sequence of the 32-bit fields it       *)
(* holds, each as its signed value; an element's bytes are whole fields.   *)
(***************************************************************************)

\* EMPTY_ARRAY = Object.freeze([]), the one object shared by every decode
EMPTY_ARRAY == [frozen |-> TRUE, shared |-> TRUE, elems |-> <<>>]

\* null, and what subCodec.decode(elemBuf) returns for an element's fields
NullElem == [null |-> TRUE, data |-> <<>>]

SubCodecDecode(elemBuf) == [null |-> FALSE, data |-> elemBuf]

\* a slip in decode: the configured length is not looked at
SizeMismatchIgnored(configured, n) == FALSE

\* this.len !== -1 && len !== this.len
SizeMismatch(configured, n) == configured # -1 /\ n # configured

\* the for loop of decode: n elements read from field pos on; a read past the
\* end of the buffer throws
RECURSIVE DecodeElems(_, _, _, _, _)
DecodeElems(buf, pos, i, n, elems) ==
  IF i >= n THEN [error |-> "", elems |-> elems]
  ELSE IF pos > Len(buf) THEN [error |-> "buffer overread", elems |-> <<>>]
  ELSE LET elemLen == buf[pos]
       IN IF elemLen = -1
            THEN DecodeElems(buf, pos + 1, i + 1, n, Append(elems, NullElem))
          ELSE IF pos + elemLen \div 4 > Len(buf)
            THEN [error |-> "buffer overread", elems |-> <<>>]
          ELSE DecodeElems(buf, pos + 1 + elemLen \div 4, i + 1, n,
                           Append(elems, SubCodecDecode(
                                    SubSeq(buf, pos + 1, pos + elemLen \div 4))))

\* ArrayCodec.decode(buf) of a codec constructed with len = configured
ArrayDecode(configured, buf) ==
  IF buf[1] = 0 THEN [error |-> "", value |-> EMPTY_ARRAY]
  ELSE IF buf[1] # 1
    THEN [error |-> "only 1-dimensional arrays are supported", value |-> EMPTY_ARRAY]
  ELSE IF Len(buf) < 3 THEN [error |-> "buffer overread", value |-> EMPTY_ARRAY]
  ELSE IF SizeMismatch(configured, buf[3])
    THEN [error |-> "invalid array size", value |-> EMPTY_ARRAY]
  ELSE IF Len(buf) < 4 THEN [error |-> "buffer overread", value |-> EMPTY_ARRAY]
  ELSE LET r == DecodeElems(buf, 5, 0, buf[3], <<>>)
       IN IF r.error # "" THEN [error |-> r.error, value |-> EMPTY_ARRAY]
          ELSE [error |-> "",
                value |-> [frozen |-> TRUE, shared |-> FALSE, elems |-> r.elems]]

\* WriteBuffer.writeInt32 on a buffer held as its bytes: the four bytes of v
\* in two's complement, most significant first
writeInt32(bytes, v) ==
  LET low == IF v >= 0 THEN v ELSE (v + 2147483647) + 1
      top == (low \div 16777216) + (IF v >= 0 THEN 0 ELSE 128)
  IN bytes \o <<top, (low \div 65536) % 256, (low \div 256) % 256, low % 256>>

\* subCodec.encode(elemData, item) of a scalar codec: the length of the
\* item's bytes, then the bytes
SubCodecEncode(elemData, item) == writeInt32(elemData, Len(item.data)) \o item.data

\* the for loop of encode, from index i on
RECURSIVE EncodeLoopArray(_, _, _)
EncodeLoopArray(elemData, items, i) ==
  IF i >= Len(items) THEN elemData
  ELSE LET item == items[i + 1]
       IN EncodeLoopArray(IF item.null THEN writeInt32(elemData, -1)
                          ELSE SubCodecEncode(elemData, item),
                          items, i + 1)

isTypedArray(o) == o.kind = "TypedArray"

\* ArrayCodec.encode(buf, obj) of a codec whose subCodec.isScalar is isScalar:
\* the error thrown, if any, and the bytes buf holds afterwards
ArrayEncode(isScalar, bytes, o) ==
  IF ~isScalar
    THEN [error |-> "only arrays of scalars are supported", bytes |-> bytes]
  ELSE IF ~(o.kind = "Array") /\ ~isTypedArray(o)
    THEN [error |-> "an array was expected", bytes |-> bytes]
  ELSE LET objLen == Len(o.items)
       IN IF objLen > 2147483647
            THEN [error |-> "too many elements in array", bytes |-> bytes]
          ELSE LET elemBuf == EncodeLoopArray(<<>>, o.items, 0)
                   b1 == writeInt32(bytes, 8 + 8 + 1 + Len(elemBuf))
                   b2 == writeInt32(b1, 1)
                   b3 == writeInt32(b2, 0)
                   b4 == writeInt32(b3, objLen)
                   b5 == writeInt32(b4, 1)
               IN [error |-> "", bytes |-> b5 \o elemBuf]

\* largest configured length, declared length and number of elements held
MaxArrayLen == 3

\* the encodings of one element: null, and two 4-byte scalars
ElemSamples == {<<-1>>, <<4, 7>>, <<4, 8>>}

\* the concatenations of up to n element encodings
RECURSIVE ElemSeqs(_)
ElemSeqs(n) ==
  IF n = 0 THEN {<<>>}
  ELSE LET P == ElemSeqs(n - 1) IN P \cup {p \o e : p \in P, e \in ElemSamples}

\* the payloads decoded: ndims alone, or ndims, flags, a declared length, the
\* lower bound and elements, which may be fewer or more than declared
ArrayPayloads ==
  {<<nd>> : nd \in 0..2}
  \cup {<<nd, 0, n, 1>> \o es : nd \in 0..2, n \in 0..MaxArrayLen,
                               es \in ElemSeqs(MaxArrayLen)}

\* an Array handed to encode: whether it is an Array, a typed array or
\* neither, and its elements
ArrayLike(kind, items) == [kind |-> kind, items |-> items]

\* no value has been handed to encode, and nothing has been written
NoEncode ==
  subCodecIsScalar = TRUE /\ obj = ArrayLike("Array", <<>>) /\ ebuf = <<>>

\* no ArrayCodec call is in progress
ArrayIdle ==
  /\ codecLen = -1 /\ rbuf = <<>> /\ arrResult = EMPTY_ARRAY /\ arrError = ""
  /\ arrPc = "idle"
  /\ NoEncode


(***************************************************************************)
(* runTypegen.  The run is suspended at each await: on globAsync, on        *)
(* connect, and on processEdgeQLFile for one file at a time; a step is the  *)
(* code run when the awaited promise settles, up to the next await.        *)
(***************************************************************************)

\* the most files a glob matches
MaxFiles == 3

FileNames == <<"a.edgeql", "b.edgeql", "c.edgeql", "d.edgeql", "e.edgeql">>

Files == {FileNames[i] : i \in 1..Min(MaxFiles, Len(FileNames))}

\* what glob can match: the sequences of distinct files
Matches ==
  UNION {{m \in [1..n -> Files] : \A i, j \in 1..n : i # j => m[i] # m[j]} :
           n \in 0..Min(MaxFiles, Len(FileNames))}

\* a line written to the console
Out(kind, text) == [kind |-> kind, text |-> text]

\* a slip in the loop: no try around processEdgeQLFile
NotCaught(outcome) == outcome # "thrown"

\* try { await processEdgeQLFile(match, conn) } catch (e) { ... }: whatever the
\* call throws is caught
Caught(outcome) == TRUE

\* no run of runTypegen
TypegenIdle ==
  /\ genPc = "idle" /\ matches = <<>> /\ conn = "none" /\ idx = 0
  /\ attempted = <<>> /\ outcomes = <<>> /\ stdout = <<>>


(***************************************************************************)
(* walkCodec.  A codec is a record tagged with its class; a line of a      *)
(* rendered fragment is the sequence of the strings concatenated into it.  *)
(***************************************************************************)

ScalarCodec(typeName) == [kind |-> "scalar", typeName |-> typeName]
EnumCodec == [kind |-> "enum"]
EmptyTupleCodec == [kind |-> "emptytuple"]
ObjectCodec(names, codecs) == [kind |-> "object", names |-> names, codecs |-> codecs]
SetCodec(subCodec) == [kind |-> "set", subCodec |-> subCodec]
ArrayCodec(subCodec) == [kind |-> "array", subCodec |-> subCodec]
TupleCodec(subCodecs) == [kind |-> "tuple", subCodecs |-> subCodecs]
NamedTupleCodec(names, subCodecs) ==
  [kind |-> "namedtuple", names |-> names, subCodecs |-> subCodecs]

\* ScalarTypings: the scalar types that have a typing, and those to import
ScalarTypings ==
  [t \in {"std::uuid", "std::str", "std::bytes", "std::int16", "std::int32",
          "std::int64", "std::float32", "std::float64", "std::bool",
          "std::datetime", "std::local_datetime", "std::local_date",
          "std::local_time", "std::duration", "std::json", "std::bigint"} |->
     CASE t = "std::uuid" -> [type |-> "UUID", needsImport |-> TRUE]
       [] t = "std::str" -> [type |-> "string", needsImport |-> FALSE]
       [] t = "std::bytes" -> [type |-> "Buffer", needsImport |-> FALSE]
       [] t \in {"std::int16", "std::int32", "std::int64", "std::float32",
                 "std::float64"} -> [type |-> "number", needsImport |-> FALSE]
       [] t = "std::bool" -> [type |-> "boolean", needsImport |-> FALSE]
       [] t = "std::datetime" -> [type |-> "Date", needsImport |-> FALSE]
       [] t = "std::local_datetime" -> [type |-> "LocalDateTime", needsImport |-> TRUE]
       [] t = "std::local_date" -> [type |-> "LocalDate", needsImport |-> TRUE]
       [] t = "std::local_time" -> [type |-> "LocalTime", needsImport |-> TRUE]
       [] t = "std::duration" -> [type |-> "Duration", needsImport |-> TRUE]
       [] t = "std::json" -> [type |-> "string", needsImport |-> FALSE]
       [] t = "std::bigint" -> [type |-> "bigint", needsImport |-> FALSE]]

\* what a walk returns: the lines, the imports added, or the error thrown
Walked(lines, imps) == [error |-> "", lines |-> lines, imports |-> imps]
Thrown(msg) == [error |-> msg, lines |-> <<>>, imports |-> {}]

\* the first error among results, "" when none
RECURSIVE FirstError(_)
FirstError(rs) ==
  IF rs = <<>> THEN ""
  ELSE IF Head(rs).error # "" THEN Head(rs).error ELSE FirstError(Tail(rs))

\* flatMap: the concatenation of the fragments
RECURSIVE Flatten(_)
Flatten(frags) == IF frags = <<>> THEN <<>> ELSE Head(frags) \o Flatten(Tail(frags))

\* wrapType(type, withType)
wrapType(type, withType) ==
  <<<<withType, "<">> \o (IF type = <<>> THEN <<"undefined">> ELSE type[1])
      \o (IF Len(type) = 1 THEN <<">">> ELSE <<>>)>>
    \o (IF Len(type) > 2 THEN SubSeq(type, 2, Len(type) - 1) ELSE <<>>)
    \o (IF Len(type) > 1 THEN <<type[Len(type)] \o <<">">>>> ELSE <<>>)

\* generateTupleType, the lines of element i of n:
\* walkCodec(subCodec, imports).map(l => '  '+l+(i!==(codecs.length-1)?',':''))
TupleElement(lines, i, n) ==
  [k \in 1..Len(lines) |-> <<"  ">> \o lines[k] \o (IF i # n THEN <<",">> ELSE <<>>)]

\* generateTupleType, given the fragments of the sub-codecs
TupleLines(frags) ==
  <<<<"[">>>>
    \o Flatten([i \in 1..Len(frags) |-> TupleElement(frags[i], i, Len(frags))])
    \o <<<<"]">>>>

\* generateObjectType, the lines of one field
ObjectField(fieldName, lines) ==
  <<<<"  ", fieldName, ": ">> \o (IF lines = <<>> THEN <<>> ELSE lines[1])>>
    \o (IF Len(lines) <= 1 THEN <<>>
        ELSE [k \in 1..(Len(lines) - 1) |-> <<"  ">> \o lines[k + 1]])

\* generateObjectType, given the fragments of the fields' codecs
ObjectLines(names, frags) ==
  <<<<"{">>>>
    \o Flatten([i \in 1..Len(names) |-> ObjectField(names[i], frags[i])])
    \o <<<<"}">>>>

\* the union of the imports added by the walks
AllImports(rs) == UNION {rs[i].imports : i \in 1..Len(rs)}

\* walkCodec(codec, imports): the lines returned and the names added to imports
RECURSIVE walkCodec(_)
walkCodec(c) ==
  CASE c.kind = "object" ->
         LET rs == [i \in 1..Len(c.names) |-> walkCodec(c.codecs[i])]
         IN IF FirstError(rs) # "" THEN Thrown(FirstError(rs))
            ELSE Walked(ObjectLines(c.names, [i \in 1..Len(rs) |-> rs[i].lines]),
                        AllImports(rs))
    [] c.kind = "set" ->
         LET r == walkCodec(c.subCodec)
         IN IF r.error # "" THEN r
            ELSE Walked(wrapType(r.lines, "Set"), r.imports \cup {"Set"})
    [] c.kind = "tuple" ->
         LET rs == [i \in 1..Len(c.subCodecs) |-> walkCodec(c.subCodecs[i])]
         IN IF FirstError(rs) # "" THEN Thrown(FirstError(rs))
            ELSE Walked(TupleLines([i \in 1..Len(rs) |-> rs[i].lines]), AllImports(rs))
    [] c.kind = "namedtuple" ->
         LET rs == [i \in 1..Len(c.subCodecs) |-> walkCodec(c.subCodecs[i])]
             frags == [i \in 1..Len(rs) |-> rs[i].lines]
             tupleType == TupleLines(frags)
             objectType == ObjectLines(c.names, frags)
         IN IF FirstError(rs) # "" THEN Thrown(FirstError(rs))
            ELSE Walked(SubSeq(tupleType, 1, Len(tupleType) - 1)
                          \o <<tupleType[Len(tupleType)] \o <<" & ">> \o objectType[1]>>
                          \o Tail(objectType),
                        AllImports(rs))
    [] c.kind = "emptytuple" -> Walked(<<>>, {})
    [] c.kind = "array" ->
         LET r == walkCodec(c.subCodec)
         IN IF r.error # "" THEN r
            ELSE Walked((IF r.lines = <<>> THEN <<>>
                         ELSE SubSeq(r.lines, 1, Len(r.lines) - 1))
                          \o <<(IF r.lines = <<>> THEN <<"undefined">>
                                ELSE r.lines[Len(r.lines)]) \o <<"[]">>>>,
                        r.imports)
    [] c.kind = "enum" -> Walked(<<<<"string">>>>, {})
    [] c.kind = "scalar" ->
         IF c.typeName = "" THEN Thrown("Unknown scalar type")
         ELSE IF c.typeName \notin DOMAIN ScalarTypings
           THEN Thrown("No codec for scalar type")
         ELSE LET t == ScalarTypings[c.typeName]
              IN Walked(<<<<t.type>>>>, IF t.needsImport THEN {t.type} ELSE {})
    [] OTHER -> Thrown("Unknown codec")

\* the most sub-codecs of a codec walked
MaxArity == 2

FieldNames == <<"a", "b", "c", "d">>

\* the sequences of 1..MaxArity codecs of S
CodecSeqs(S) == UNION {[1..n -> S] : n \in 1..MaxArity}

\* the codecs with no sub-codec: scalars with a typing, with a typing to
\* import, without a typing, an enum and the empty tuple
LeafCodecs ==
  {ScalarCodec("std::str"), ScalarCodec("std::uuid"), ScalarCodec("std::decimal"),
   EnumCodec, EmptyTupleCodec}

\* the codecs over the leaves
FlatCodecs ==
  LeafCodecs
  \cup {ObjectCodec(SubSeq(FieldNames, 1, Len(cs)), cs) : cs \in CodecSeqs(LeafCodecs)}
  \cup {TupleCodec(cs) : cs \in CodecSeqs(LeafCodecs)}
  \cup {NamedTupleCodec(SubSeq(FieldNames, 1, Len(cs)), cs) : cs \in CodecSeqs(LeafCodecs)}
  \cup {SetCodec(c) : c \in LeafCodecs}
  \cup {ArrayCodec(c) : c \in LeafCodecs}

\* the codecs walked: those over the leaves, and the tuples of them
WalkCodecs == FlatCodecs \cup {TupleCodec(cs) : cs \in CodecSeqs(FlatCodecs)}

\* no call of walkCodec
WalkIdle ==
  /\ codec = EmptyTupleCodec /\ imports = {} /\ fragment = <<>> /\ walkError = ""
  /\ walkPc = "idle"

\* the ring buffer as constructed with capacity 1, untouched
RingBufferIdle ==
  /\ capacity = 1 /\ buffer = NewBuffer(1) /\ reader = 0 /\ writer = 0 /\ len = 0
  /\ lastOp = "new" /\ arg = Undefined /\ ret = Undefined
  /\ pre = [pending |-> <<>>, capacity |-> 1, len |-> 0, saturated |-> FALSE,
            reader |-> 0, fifo |-> <<>>]
  /\ fifo = <<>> /\ nOps = 0

\* no numeric codec call is in progress
NumIdle ==
  /\ object = <<>> /\ wbuf = <<>> /\ origin = "none" /\ decoded = <<>> /\ error = ""
  /\ numPc = "idle"

Init == RingBufferInit /\ NumIdle /\ ArrayIdle /\ TypegenIdle /\ WalkIdle

\* the caller enqueues distinct items: the n-th call carries the item n
Next ==
  \/ enq(nOps + 1) /\ UNCHANGED <<numVars, arrVars, genVars, walkVars>>
  \/ deq /\ UNCHANGED <<numVars, arrVars, genVars, walkVars>>
  \/ clear /\ UNCHANGED <<numVars, arrVars, genVars, walkVars>>

Spec == Init /\ [][Next]_vars

(***************************************************************************)
(* Claims about RingBuffer                                                 *)
(***************************************************************************)

\* what the reference FIFO returns for the last call, given the state before it
RefDeq == IF pre.fifo = <<>> THEN Undefined ELSE Head(pre.fifo)

\* C1: RingBuffer is a FIFO: every deq returns what the reference unbounded FIFO
\* returns for the same calls (its oldest item, Undefined only when it is empty),
\* and length always equals the reference FIFO's size.
C1_FifoRefinement ==
  /\ len = Len(fifo)
  /\ lastOp = "deq" => ret = RefDeq

\* C2: an enq made with reader = writer and len > 0 grows the buffer: the pending
\* items after it are the pending items before it with the new item appended,
\* capacity has doubled and len has grown by one.
C2_ResizeRelocatesOnly ==
  (lastOp = "enq" /\ pre.saturated) =>
    /\ Pending = Append(pre.pending, arg)
    /\ capacity = 2 * pre.capacity
    /\ len = pre.len + 1

\* an enq has grown a buffer whose pending items wrapped around its end
C2_Witness ==
  /\ lastOp = "enq" /\ pre.saturated
  /\ pre.reader > 0
  /\ pre.capacity > 1
  /\ len = pre.capacity + 1
(***************************************************************************)
(* BigIntCodec                                                             *)
(***************************************************************************)

NBASE == 10000

\* the while loop of encode: the remainders of uval by NBASE, least
\* significant first
RECURSIVE BigIntDigits(_, _)
BigIntDigits(uval, digits) ==
  IF uval # 0 THEN BigIntDigits(uval \div NBASE, Append(digits, uval % NBASE))
  ELSE digits

\* a slip in encode: the loop stops before the group digits[0]
RECURSIVE WriteDigitsButLast(_, _, _)
WriteDigitsButLast(buf, digits, i) ==
  IF i > 1 THEN WriteDigitsButLast(WriteUInt16(buf, digits[i]), digits, i - 1) ELSE buf

\* the for loop of encode: the groups from digits.length - 1 down to 0
BigIntWriteDigits(buf, digits, i) == WriteDigits(buf, digits, i)

\* BigIntCodec.encode(buf, object) on an empty buffer
BigIntEncode(x) ==
  IF x = 0
    THEN WriteUInt16(WriteUInt16(WriteUInt32(WriteUInt32(<<>>, 8), 0), NUMERIC_POS), 0)
    ELSE
      LET sign   == IF x < 0 THEN NUMERIC_NEG ELSE NUMERIC_POS
          uval   == IF x < 0 THEN -x ELSE x
          digits == BigIntDigits(uval, <<>>)
          b1 == WriteUInt32(<<>>, 8 + Len(digits) * 2)
          b2 == WriteUInt16(b1, Len(digits))
          b3 == WriteUInt16(b2, Len(digits) - 1)
          b4 == WriteUInt16(b3, sign)
          b5 == WriteUInt16(b4, 0)
      IN BigIntWriteDigits(b5, digits, Len(digits))

\* the while loop of decodeBigIntToString; groups holds the words not yet read
RECURSIVE BigIntToStringLoop(_, _, _, _, _, _)
BigIntToStringLoop(result, groups, i, d, weight, ndigits) ==
  IF i >= 0
    THEN IF i <= weight /\ d < ndigits
           THEN LET digit == NumToString(Head(groups))
                IN BigIntToStringLoop(
                     result \o (IF d > 0 THEN PadStart(digit, 4, "0") ELSE digit),
                     Tail(groups), i - 1, d + 1, weight, ndigits)
           ELSE BigIntToStringLoop(result \o Repeat("0", 4), groups, i - 1, d,
                                   weight, ndigits)
    ELSE result

\* decodeBigIntToString(buf): buf holds the header and the digit groups
DecodeBigIntToString(buf) ==
  LET ndigits == buf[1]
      weight  == ReadInt16(buf[2])
      sign    == buf[3]
      dscale  == buf[4]
  IN IF sign # NUMERIC_POS /\ sign # NUMERIC_NEG
       THEN [error |-> "bad bigint sign data", value |-> <<>>]
     ELSE IF dscale # 0
       THEN [error |-> "bigint data has fractional part", value |-> <<>>]
     ELSE IF ndigits = 0
       THEN [error |-> "", value |-> <<"0">>]
     ELSE [error |-> "",
           value |-> BigIntToStringLoop(IF sign = NUMERIC_NEG THEN <<"-">> ELSE <<>>,
                                        SubSeq(buf, 5, Len(buf)), weight, 0,
                                        weight, ndigits)]

\* BigInt(s) of an optional '-' and decimal digits
BigIntOfString(s) ==
  IF s[1] = "-" THEN -ParseInt(Tail(s)) ELSE ParseInt(s)

\* BigIntCodec.decode(buf)
BigIntDecode(buf) ==
  LET r == DecodeBigIntToString(buf)
  IN IF r.error # "" THEN [error |-> r.error, value |-> 0]
     ELSE [error |-> "", value |-> BigIntOfString(r.value)]

(***************************************************************************)
(* DecimalCodec calls: encode(object), then decode of what encode wrote    *)
(***************************************************************************)

\* longest integer part and longest fractional part of the strings encoded
MaxIntLen == 5
MaxFracLen == 5

\* the digits the enumerated strings are made of
DigitSamples == {"0", "7"}

\* the strings over S of length up to n
RECURSIVE Strings(_, _)
Strings(S, n) ==
  IF n = 0 THEN {<<>>}
  ELSE LET P == Strings(S, n - 1) IN P \cup {Append(p, c) : p \in P, c \in S}

\* the vectors named by the specification
DecimalVectors ==
  {<<"0", ".", "0", "0">>,
   <<"1", "2", "3", ".", "4", "5", "0", "0">>,
   <<"-", "0", ".", "0", "0", "1">>,
   Repeat("9", 20) \o <<".", "1">>,
   <<"1", ".", "5", "0">>}

\* the strings handed to encode: a sign or none, digits, a separator or none,
\* digits; and the vectors
DecimalInputs ==
  {sg \o i \o sep \o f :
     sg \in {<<>>, <<"-">>, <<"+">>},
     i \in Strings(DigitSamples, MaxIntLen),
     sep \in {<<>>, <<".">>, <<"x">>},
     f \in Strings(DigitSamples, MaxFracLen)}
  \cup DecimalVectors

\* largest ndigits, |weight| and dscale of the payloads received
MaxNdigits == 2
MaxWeight == 2
MaxDscale == 5

\* the digit groups the received payloads are made of
GroupSamples == {0, 1, 420, 9999}

\* 0xC000, a sign field that is neither NUMERIC_POS nor NUMERIC_NEG
NUMERIC_NAN == 49152

\* the payloads received from the server: a header and ndigits digit groups,
\* behind a 4-byte length
DecimalPayloads ==
  {WriteUInt32(<<>>, 8 + Len(g) * 2) \o <<Len(g), (w + Word) % Word, sg, ds>> \o g :
     g \in UNION {[1..n -> GroupSamples] : n \in 0..MaxNdigits},
     w \in (-MaxWeight)..MaxWeight,
     sg \in {NUMERIC_POS, NUMERIC_NEG, NUMERIC_NAN},
     ds \in 0..MaxDscale}

\* a string is about to be encoded, or a payload has been received
DecimalInit ==
  /\ decoded = <<>> /\ error = ""
  /\ \/ object \in DecimalInputs /\ wbuf = <<>> /\ origin = "encode" /\ numPc = "start"
     \/ object = <<>> /\ wbuf \in DecimalPayloads /\ origin = "server" /\ numPc = "received"

\* codec.encode(buf, object)
DecimalEncodeCall ==
  /\ numPc = "start"
  /\ LET r == DecimalEncode(object)
     IN /\ wbuf' = r.buf
        /\ error' = r.error
        /\ numPc' = IF r.error = "" THEN "encoded" ELSE "thrown"
  /\ UNCHANGED <<object, origin, decoded>>

\* codec.decode(buf) on the bytes after the 4-byte length prefix
DecimalDecodeCall ==
  /\ numPc \in {"encoded", "received"}
  /\ LET r == DecimalDecode(AfterLength(wbuf))
     IN /\ decoded' = r.value
        /\ error' = r.error
        /\ numPc' = IF r.error = "" THEN "decoded" ELSE "thrown"
  /\ UNCHANGED <<object, origin, wbuf>>

NextDecimal ==
  \/ DecimalEncodeCall /\ UNCHANGED <<rbVars, arrVars, genVars, walkVars>>
  \/ DecimalDecodeCall /\ UNCHANGED <<rbVars, arrVars, genVars, walkVars>>

InitDecimal == RingBufferIdle /\ DecimalInit /\ ArrayIdle /\ TypegenIdle /\ WalkIdle

SpecDecimal == InitDecimal /\ [][NextDecimal]_vars

(***************************************************************************)
(* Claims about DecimalCodec                                               *)
(***************************************************************************)

AllDigits(s) == \A k \in 1..Len(s) : IsDigit(s[k])

\* sign? digits '.' digits, with the signs in signs
DecimalShape(s, signs) ==
  \E sl \in 0..1 : \E p \in 1..Len(s) :
    /\ sl = 1 => (s # <<>> /\ s[1] \in signs)
    /\ s[p] = "."
    /\ p > sl + 1 /\ p < Len(s)
    /\ AllDigits(SubSeq(s, sl + 1, p - 1))
    /\ AllDigits(SubSeq(s, p + 1, Len(s)))

\* the integer part of a string of DecimalShape
IntPart(s) ==
  LET sl == IF s[1] \in {"+", "-"} THEN 1 ELSE 0
      p  == CHOOSE p \in 1..Len(s) : s[p] = "."
  IN SubSeq(s, sl + 1, p - 1)

\* optional '-', integer digits without redundant leading zeros, '.', digits
Canonical(s) ==
  /\ DecimalShape(s, {"-"})
  /\ Len(IntPart(s)) > 1 => IntPart(s)[1] # "0"

\* the fractional part of a string of DecimalShape
FracPart(s) ==
  LET p == CHOOSE p \in 1..Len(s) : s[p] = "."
  IN SubSeq(s, p + 1, Len(s))

\* C3: decode of what encode wrote for a canonical decimal string is that
\* string exactly, trailing fractional zeros included; the dscale written is the
\* number of fractional digits of the string.
C3_DecimalRoundTrip ==
  (origin = "encode" /\ Canonical(object)) =>
    /\ numPc # "thrown"
    /\ numPc \in {"encoded", "decoded"} => AfterLength(wbuf)[4] = Len(FracPart(object))
    /\ numPc = "decoded" => decoded = object

\* a canonical string with integer digits in two groups, fractional digits in
\* two groups and a trailing zero has been decoded
C3_Witness ==
  /\ numPc = "decoded" /\ Canonical(object)
  /\ Len(IntPart(object)) > 4
  /\ Len(FracPart(object)) > 4
  /\ object[Len(object)] = "0"

\* C4: encode accepts only strings of the shape sign? digits '.' digits; any
\* other input fails with "invalid decimal string" and nothing is written.
C4_RejectsMalformed ==
  (origin = "encode" /\ numPc # "start" /\ ~DecimalShape(object, {"+", "-"})) =>
    numPc = "thrown" /\ error = "invalid decimal string" /\ wbuf = <<>>

\* what holds of encode's guard: an input the regular expression does not match
\* fails with "invalid decimal string" and nothing is written; every string of
\* the shape sign? digits '.' digits is accepted
DecimalGuard ==
  (origin = "encode" /\ numPc # "start") =>
    /\ ~RegexMatch(object).matched =>
         numPc = "thrown" /\ error = "invalid decimal string" /\ wbuf = <<>>
    /\ DecimalShape(object, {"+", "-"}) => numPc # "thrown"
\* the digit group of weight p (its value is that group times 10000^p): the
\* stored group number PayloadWeight - p, zero where none is stored
GroupOfWeight(p) ==
  LET j == PayloadWeight - p
  IN IF j >= 0 /\ j < PayloadNdigits THEN PayloadGroups[j + 1] ELSE 0

\* the 4-digit renderings of the groups of weight hi down to lo
RECURSIVE GroupDigits(_, _)
GroupDigits(hi, lo) ==
  IF hi < lo THEN <<>>
  ELSE PadStart(NumToString(GroupOfWeight(hi)), 4, "0") \o GroupDigits(hi - 1, lo)

\* the integer digits the payload denotes, leading zeros stripped
PayloadInt ==
  LET d == StripLeadingZeros(GroupDigits(PayloadWeight, 0))
  IN IF d = <<>> THEN <<"0">> ELSE d

\* the first dscale fractional digits the payload denotes
PayloadFrac ==
  SubSeq(GroupDigits(-1, -((PayloadDscale + 3) \div 4)), 1, PayloadDscale)

\* the string the payload denotes
PayloadString ==
  (IF PayloadSign = NUMERIC_NEG THEN <<"-">> ELSE <<>>)
    \o PayloadInt \o <<".">> \o PayloadFrac

\* C5: decode of a payload with a known sign returns the payload's integer
\* digits (leading zeros stripped, "0" when none), a decimal point, and exactly
\* dscale fractional digits, for every dscale >= 0; positions with no stored
\* group read as zero.
C5_DecodeRendersDscale ==
  (origin = "server" /\ numPc = "decoded") => decoded = PayloadString

\* what holds of decode: the claim of C5 for every payload with dscale > 0
DecodePositiveDscale ==
  (origin = "server" /\ numPc = "decoded" /\ PayloadDscale > 0) =>
     decoded = PayloadString

\* decode throws on the payloads whose sign is not known, and on no other
DecodeSign ==
  (origin = "server" /\ numPc # "received") =>
     (numPc = "thrown" <=> PayloadSign \notin {NUMERIC_POS, NUMERIC_NEG})

OneFifty == <<"1", ".", "5", "0">>

\* C6 as stated: encode("1.50") writes weight 0, ndigits 1, the single group 1
\* and dscale 2, and decode of that payload returns "1.50".
C6_VectorAsStated ==
  /\ (origin = "encode" /\ object = OneFifty /\ numPc \in {"encoded", "decoded"}) =>
        AfterLength(wbuf) = <<1, 0, NUMERIC_POS, 2, 1>>
  /\ (numPc = "decoded" /\ AfterLength(wbuf) = <<1, 0, NUMERIC_POS, 2, 1>>) =>
        decoded = OneFifty

\* C6 amended: encode("1.50") writes weight 0, ndigits 2, the groups 1 and 5000
\* and dscale 2, and decode of that payload returns "1.50"; decode of the payload
\* with the single group 1 returns "1.00".
C6_VectorAmended ==
  /\ (origin = "encode" /\ object = OneFifty /\ numPc \in {"encoded", "decoded"}) =>
        wbuf = <<0, 12, 2, 0, NUMERIC_POS, 2, 1, 5000>>
  /\ (numPc = "decoded" /\ AfterLength(wbuf) = <<2, 0, NUMERIC_POS, 2, 1, 5000>>) =>
        decoded = OneFifty
  /\ (numPc = "decoded" /\ AfterLength(wbuf) = <<1, 0, NUMERIC_POS, 2, 1>>) =>
        decoded = <<"1", ".", "0", "0">>

\* "1.50" has been encoded and what was written has been decoded
C6_Witness ==
  origin = "encode" /\ object = OneFifty /\ numPc = "decoded"
(***************************************************************************)
(* BigIntCodec calls: encode(object), then decode of what encode wrote     *)
(***************************************************************************)

\* the integers encoded: those up to MaxSmallInt in size, and those of three
\* base-10000 groups, the most significant one up to MaxTopGroup
MaxSmallInt == 50
MaxTopGroup == 2

BigGroupSamples == {0, 1, 4, 420, 9999}

BigIntInputs ==
  ((-MaxSmallInt)..MaxSmallInt)
  \cup {sg * ((a * NBASE + b) * NBASE + c) :
          sg \in {-1, 1}, a \in 0..MaxTopGroup,
          b \in BigGroupSamples, c \in BigGroupSamples}

BigIntInit ==
  /\ object \in BigIntInputs
  /\ wbuf = <<>> /\ origin = "encode" /\ decoded = 0 /\ error = "" /\ numPc = "start"

\* codec.encode(buf, object)
BigIntEncodeCall ==
  /\ numPc = "start"
  /\ wbuf' = BigIntEncode(object)
  /\ numPc' = "encoded"
  /\ UNCHANGED <<object, origin, decoded, error>>

\* codec.decode(buf) on the bytes after the 4-byte length prefix
BigIntDecodeCall ==
  /\ numPc = "encoded"
  /\ LET r == BigIntDecode(AfterLength(wbuf))
     IN /\ decoded' = r.value
        /\ error' = r.error
        /\ numPc' = IF r.error = "" THEN "decoded" ELSE "thrown"
  /\ UNCHANGED <<object, origin, wbuf>>

NextBigInt ==
  \/ BigIntEncodeCall /\ UNCHANGED <<rbVars, arrVars, genVars, walkVars>>
  \/ BigIntDecodeCall /\ UNCHANGED <<rbVars, arrVars, genVars, walkVars>>

InitBigInt == RingBufferIdle /\ BigIntInit /\ ArrayIdle /\ TypegenIdle /\ WalkIdle

SpecBigInt == InitBigInt /\ [][NextBigInt]_vars

(***************************************************************************)
(* Claims about BigIntCodec                                                *)
(***************************************************************************)

\* the number a sequence of base-10000 groups denotes, most significant first
RECURSIVE GroupsValue(_)
GroupsValue(g) ==
  IF g = <<>> THEN 0
  ELSE GroupsValue(SubSeq(g, 1, Len(g) - 1)) * NBASE + g[Len(g)]

Abs(x) == IF x < 0 THEN -x ELSE x

\* C7: encode(x) writes dscale 0, weight ndigits - 1 and the base-10000 groups
\* of |x|, most significant first, each in 0..9999 (for x = 0: ndigits 0,
\* weight 0, sign positive); decode of what was written is x, and
\* decodeBigIntToString of the zero payload is "0".
C7_BigIntRoundTrip ==
  /\ numPc # "thrown"
  /\ numPc \in {"encoded", "decoded"} =>
       /\ wbuf[1] * Word + wbuf[2] = 8 + 2 * PayloadNdigits
       /\ Len(PayloadGroups) = PayloadNdigits
       /\ PayloadDscale = 0
       /\ PayloadSign = (IF object < 0 THEN NUMERIC_NEG ELSE NUMERIC_POS)
       /\ \A k \in 1..PayloadNdigits : PayloadGroups[k] \in 0..(NBASE - 1)
       /\ GroupsValue(PayloadGroups) = Abs(object)
       /\ IF object = 0
            THEN /\ PayloadNdigits = 0 /\ PayloadWeight = 0
                 /\ DecodeBigIntToString(AfterLength(wbuf)).value = <<"0">>
            ELSE /\ PayloadWeight = PayloadNdigits - 1
                 /\ PayloadGroups[1] # 0
  /\ numPc = "decoded" => decoded = object

\* -40000 has been encoded and decoded
C7_Witness ==
  numPc = "decoded" /\ object = -40000 /\ PayloadNdigits = 2

(***************************************************************************)
(* ArrayCodec calls: decode of a payload                                   *)
(***************************************************************************)

\* new ArrayCodec(tid, subCodec, len) and a payload to decode
ArrayInit ==
  /\ codecLen \in (-1)..MaxArrayLen
  /\ rbuf \in ArrayPayloads
  /\ arrResult = EMPTY_ARRAY /\ arrError = "" /\ arrPc = "start"
  /\ NoEncode

\* codec.decode(buf)
ArrayDecodeCall ==
  /\ arrPc = "start"
  /\ LET r == ArrayDecode(codecLen, rbuf)
     IN /\ arrResult' = r.value
        /\ arrError' = r.error
        /\ arrPc' = IF r.error = "" THEN "returned" ELSE "thrown"
  /\ UNCHANGED <<codecLen, rbuf, subCodecIsScalar, obj, ebuf>>

NextArray ==
  ArrayDecodeCall /\ UNCHANGED <<rbVars, numVars, genVars, walkVars>>

InitArray == RingBufferIdle /\ NumIdle /\ ArrayInit /\ TypegenIdle /\ WalkIdle

SpecArray == InitArray /\ [][NextArray]_vars

(***************************************************************************)
(* Claims about ArrayCodec                                                 *)
(***************************************************************************)

\* C8 as stated: with a fixed length L, decode either fails or returns an
\* immutable sequence of exactly L elements.
C8_FixedLengthAsStated ==
  (codecLen # -1 /\ arrPc # "start") =>
    \/ arrPc = "thrown"
    \/ arrPc = "returned" /\ arrResult.frozen /\ Len(arrResult.elems) = codecLen

\* C8 amended: with a fixed length L, decode fails with "invalid array size"
\* when ndims = 1 and the declared length differs from L, fails with the
\* dimensionality error when ndims is neither 0 nor 1, and otherwise fails
\* (a read past the end of the payload) or returns an immutable sequence: the
\* shared empty one when ndims = 0, whatever L is, and one of exactly L
\* elements when ndims = 1.
C8_FixedLengthAmended ==
  (codecLen # -1 /\ arrPc # "start") =>
    /\ rbuf[1] \notin {0, 1} =>
         arrPc = "thrown" /\ arrError = "only 1-dimensional arrays are supported"
    /\ (rbuf[1] = 1 /\ Len(rbuf) >= 3 /\ rbuf[3] # codecLen) =>
         arrPc = "thrown" /\ arrError = "invalid array size"
    /\ \/ arrPc = "thrown"
       \/ /\ arrPc = "returned" /\ arrResult.frozen
          /\ \/ rbuf[1] = 0 /\ arrResult = EMPTY_ARRAY
             \/ rbuf[1] = 1 /\ Len(arrResult.elems) = codecLen

\* a codec of fixed length 2 has decoded a payload of two elements, one null
C8_Witness ==
  /\ codecLen = 2 /\ arrPc = "returned" /\ rbuf[1] = 1
  /\ Len(arrResult.elems) = 2
  /\ arrResult.elems[1] = NullElem /\ arrResult.elems[2] # NullElem

(***************************************************************************)
(* ArrayCodec calls: encode of a value                                     *)
(***************************************************************************)

\* most elements in a value handed to encode
MaxEncodeLen == 3

\* the bytes a scalar codec writes for one element: none, one, two and four
ItemSamples == {<<>>, <<97>>, <<97, 98>>, <<0, 0, 0, 7>>}

\* the elements of a value: null, or a scalar
Items == {NullElem} \cup {[null |-> FALSE, data |-> d] : d \in ItemSamples}

\* the sequences of up to n elements drawn from S
RECURSIVE ItemSeqs(_, _)
ItemSeqs(S, n) ==
  IF n = 0 THEN {<<>>}
  ELSE LET P == ItemSeqs(S, n - 1) IN P \cup {Append(p, e) : p \in P, e \in S}

\* the values handed to encode: Arrays and other objects of any elements,
\* typed arrays of numbers
EncodeInputs ==
  {ArrayLike(k, items) : k \in {"Array", "Object"}, items \in ItemSeqs(Items, MaxEncodeLen)}
  \cup {ArrayLike("TypedArray", items) : items \in ItemSeqs(Items \ {NullElem}, MaxEncodeLen)}

\* new ArrayCodec(tid, subCodec, len), an empty WriteBuffer and a value
ArrayEncodeInit ==
  /\ codecLen \in {-1, MaxArrayLen}
  /\ subCodecIsScalar \in BOOLEAN
  /\ obj \in EncodeInputs
  /\ ebuf = <<>>
  /\ rbuf = <<>> /\ arrResult = EMPTY_ARRAY /\ arrError = "" /\ arrPc = "start"

\* codec.encode(buf, obj)
ArrayEncodeCall ==
  /\ arrPc = "start"
  /\ LET r == ArrayEncode(subCodecIsScalar, ebuf, obj)
     IN /\ ebuf' = r.bytes
        /\ arrError' = r.error
        /\ arrPc' = IF r.error = "" THEN "encoded" ELSE "thrown"
  /\ UNCHANGED <<codecLen, rbuf, arrResult, subCodecIsScalar, obj>>

NextArrayEncode ==
  ArrayEncodeCall /\ UNCHANGED <<rbVars, numVars, genVars, walkVars>>

InitArrayEncode ==
  RingBufferIdle /\ NumIdle /\ ArrayEncodeInit /\ TypegenIdle /\ WalkIdle

SpecArrayEncode == InitArrayEncode /\ [][NextArrayEncode]_vars

(***************************************************************************)
(* Claims about ArrayCodec.encode                                          *)
(***************************************************************************)

\* the 32-bit value held in the four bytes of b from byte offset at
Int32At(b, at) ==
  LET u == (b[at + 1] % 128) * 16777216 + b[at + 2] * 65536 + b[at + 3] * 256 + b[at + 4]
  IN IF b[at + 1] >= 128 THEN (u - 2147483647) - 1 ELSE u

\* the bytes of the elements as the wire format lays them out: -1 for a null
\* element, otherwise the number of the element's bytes and then the bytes
RECURSIVE ElementBytes(_)
ElementBytes(items) ==
  IF items = <<>> THEN <<>>
  ELSE (IF Head(items).null THEN writeInt32(<<>>, -1)
        ELSE writeInt32(<<>>, Len(Head(items).data)) \o Head(items).data)
       \o ElementBytes(Tail(items))

\* what encode wrote after the total-length field: ndims = 1, flags = 0, the
\* bound pair (the element count and 1), and the elements
FramedBody ==
  /\ Len(ebuf) >= 20
  /\ Int32At(ebuf, 4) = 1
  /\ Int32At(ebuf, 8) = 0
  /\ Int32At(ebuf, 12) = Len(obj.items)
  /\ Int32At(ebuf, 16) = 1
  /\ SubSeq(ebuf, 21, Len(ebuf)) = ElementBytes(obj.items)

\* C11: when encode returns, the total length written first equals the number
\* of bytes the call wrote after that field (ndims, flags, the bound pair and
\* the element bytes), with ndims = 1, flags = 0, the element count equal to
\* the input's length and each null element written as the 4-byte value -1.
C11_EncodeFraming ==
  arrPc = "encoded" =>
    /\ FramedBody
    /\ Int32At(ebuf, 0) = Len(ebuf) - 4

\* what holds of encode: the body is framed as C11 says, and the total length
\* written is one more than the number of bytes that follow it
EncodeFramingOffByOne ==
  arrPc = "encoded" =>
    /\ FramedBody
    /\ Int32At(ebuf, 0) = (Len(ebuf) - 4) + 1

\* encode returns exactly for array-like values of a scalar element codec,
\* and a call that throws writes nothing
EncodeGuard ==
  /\ arrPc = "encoded" => subCodecIsScalar /\ obj.kind \in {"Array", "TypedArray"}
  /\ arrPc = "thrown" =>
       /\ ebuf = <<>>
       /\ ~subCodecIsScalar \/ obj.kind = "Object"

(***************************************************************************)
(* A run of runTypegen                                                     *)
(***************************************************************************)

\* runTypegen has been called and awaits globAsync
TypegenInit ==
  /\ genPc = "globbing" /\ matches = <<>> /\ conn = "none" /\ idx = 0
  /\ attempted = <<>> /\ outcomes = <<>> /\ stdout = <<>>

\* globAsync resolves: with no match the run ends, otherwise connect is called
GlobResolved(m) ==
  /\ genPc = "globbing"
  /\ matches' = m
  /\ IF m = <<>>
       THEN /\ stdout' = Append(stdout, Out("log", "No matching files"))
            /\ genPc' = "done"
       ELSE /\ stdout' = Append(stdout, Out("connect", "Connecting to database ... "))
            /\ genPc' = "connecting"
  /\ UNCHANGED <<conn, idx, attempted, outcomes>>

\* globAsync rejects: runTypegen rejects
GlobRejected ==
  /\ genPc = "globbing"
  /\ genPc' = "rejected"
  /\ UNCHANGED <<matches, conn, idx, attempted, outcomes, stdout>>

\* connect resolves: the loop starts and the first file is handed to
\* processEdgeQLFile
ConnectResolved ==
  /\ genPc = "connecting"
  /\ conn' = "open"
  /\ stdout' = stdout \o <<Out("connect", "Connected"),
                           Out("log", "Generating types..."),
                           Out("file", matches[1])>>
  /\ idx' = 1
  /\ attempted' = Append(attempted, matches[1])
  /\ genPc' = "processing"
  /\ UNCHANGED <<matches, outcomes>>

\* connect rejects: the failure is written and the run ends
ConnectRejected ==
  /\ genPc = "connecting"
  /\ stdout' = stdout \o <<Out("connect", "Failed"), Out("error", "connect")>>
  /\ genPc' = "done"
  /\ UNCHANGED <<matches, conn, idx, attempted, outcomes>>

\* processEdgeQLFile(matches[idx], conn) settles: its end is written, and the
\* next file is handed over or, after the last one, the connection is closed
FileSettled(outcome) ==
  /\ genPc = "processing"
  /\ outcomes' = Append(outcomes, outcome)
  /\ IF ~Caught(outcome)
       THEN /\ genPc' = "rejected"
            /\ UNCHANGED <<stdout, idx, attempted, conn>>
       ELSE LET report == IF outcome = "thrown"
                            THEN <<Out("status", "Failed"), Out("error", matches[idx])>>
                            ELSE <<Out("status", "Done")>>
            IN IF idx < Len(matches)
                 THEN /\ stdout' = stdout \o report \o <<Out("file", matches[idx + 1])>>
                      /\ idx' = idx + 1
                      /\ attempted' = Append(attempted, matches[idx + 1])
                      /\ UNCHANGED <<genPc, conn>>
                 ELSE /\ stdout' = stdout \o report
                      /\ conn' = "closed"
                      /\ genPc' = "done"
                      /\ UNCHANGED <<idx, attempted>>
  /\ UNCHANGED matches

NextTypegen ==
  \/ (\E m \in Matches : GlobResolved(m)) /\ UNCHANGED <<rbVars, numVars, arrVars, walkVars>>
  \/ GlobRejected /\ UNCHANGED <<rbVars, numVars, arrVars, walkVars>>
  \/ ConnectResolved /\ UNCHANGED <<rbVars, numVars, arrVars, walkVars>>
  \/ ConnectRejected /\ UNCHANGED <<rbVars, numVars, arrVars, walkVars>>
  \/ (\E o \in {"returned", "thrown"} : FileSettled(o))
       /\ UNCHANGED <<rbVars, numVars, arrVars, walkVars>>

InitTypegen == RingBufferIdle /\ NumIdle /\ ArrayIdle /\ TypegenInit /\ WalkIdle

SpecTypegen == InitTypegen /\ [][NextTypegen]_vars

(***************************************************************************)
(* Claims about runTypegen                                                 *)
(***************************************************************************)

\* the per-file reports on the console: each file line with the status line
\* that follows it
FileReports ==
  LET at == {i \in 1..Len(stdout) : stdout[i].kind = "file"}
      nth(k) == CHOOSE i \in at : Cardinality({j \in at : j < i}) = k - 1
  IN [k \in 1..Cardinality(at) |->
        [file   |-> stdout[nth(k)].text,
         status |-> IF nth(k) < Len(stdout) THEN stdout[nth(k) + 1].text ELSE "pending"]]

\* the status runTypegen writes for a call that ended with outcome o
StatusOf(o) == IF o = "thrown" THEN "Failed" ELSE "Done"

ConnectFailed ==
  \E i \in 1..Len(stdout) : stdout[i] = Out("connect", "Failed")

\* C9: if connecting fails no file is processed and the run ends reporting the
\* failure; if it succeeds every matched file is attempted exactly once, in
\* match order, whatever the outcome of the files before it, each failure is
\* reported for its file alone, and the connection is closed after the last.
C9_BatchIsolation ==
  /\ genPc # "rejected" \/ (attempted = <<>> /\ conn = "none")
  /\ ConnectFailed =>
       /\ genPc = "done" /\ attempted = <<>> /\ outcomes = <<>> /\ conn = "none"
       /\ FileReports = <<>>
       /\ stdout[Len(stdout)] = Out("error", "connect")
  /\ conn # "none" =>
       /\ attempted = SubSeq(matches, 1, idx)
       /\ Len(FileReports) = idx
       /\ \A k \in 1..idx :
            /\ FileReports[k].file = matches[k]
            /\ FileReports[k].status =
                 (IF k <= Len(outcomes) THEN StatusOf(outcomes[k]) ELSE "pending")
       /\ Cardinality({i \in 1..Len(stdout) : stdout[i].kind = "error"})
            = Cardinality({k \in 1..Len(outcomes) : outcomes[k] = "thrown"})
       /\ conn = "closed" <=> (genPc = "done" /\ Len(outcomes) = Len(matches))
       /\ genPc = "done" => (attempted = matches /\ conn = "closed")
       /\ genPc = "processing" => (conn = "open" /\ Len(outcomes) = idx - 1)

\* a run over three files has ended, the first file having failed and the
\* last having succeeded
C9_Witness ==
  /\ genPc = "done" /\ conn = "closed" /\ Len(matches) = 3
  /\ outcomes[1] = "thrown" /\ outcomes[3] = "returned"

\* a run has ended on a failed connect
C9_WitnessConnectFailed ==
  genPc = "done" /\ ConnectFailed /\ Len(matches) = 2

(***************************************************************************)
(* A call of walkCodec                                                     *)
(***************************************************************************)

\* processEdgeQLFile is about to walk a codec: imports = new Set(['TypedQuery'])
WalkInit ==
  /\ codec \in WalkCodecs
  /\ imports = {"TypedQuery"} /\ fragment = <<>> /\ walkError = "" /\ walkPc = "start"

\* walkCodec(codec, imports)
WalkCall ==
  /\ walkPc = "start"
  /\ LET r == walkCodec(codec)
     IN /\ fragment' = r.lines
        /\ imports' = imports \cup r.imports
        /\ walkError' = r.error
        /\ walkPc' = IF r.error = "" THEN "returned" ELSE "thrown"
  /\ UNCHANGED codec

NextWalk ==
  WalkCall /\ UNCHANGED <<rbVars, numVars, arrVars, genVars>>

InitWalk == RingBufferIdle /\ NumIdle /\ ArrayIdle /\ TypegenIdle /\ WalkInit

SpecWalk == InitWalk /\ [][NextWalk]_vars

(***************************************************************************)
(* Claims about walkCodec                                                  *)
(***************************************************************************)

\* the fragment of element i of the tuple walked
ElementFragment(i) == walkCodec(codec.subCodecs[i]).lines

\* an element's fragment as the claim places it in a tuple: every line
\* indented, and a comma at the end of the last line unless the element is
\* the last
PlacedElement(i) ==
  LET f == ElementFragment(i)
  IN [k \in 1..Len(f) |->
        <<"  ">> \o f[k]
          \o (IF i # Len(codec.subCodecs) /\ k = Len(f) THEN <<",">> ELSE <<>>)]

\* C10: a tuple renders as an opening bracket line, each element's fragment
\* indented, in positional order, with one trailing comma per element except
\* the last, at the end of that element's fragment, and a closing bracket line.
C10_TupleRendering ==
  (walkPc = "returned" /\ codec.kind = "tuple") =>
    fragment = <<<<"[">>>>
                 \o Flatten([i \in 1..Len(codec.subCodecs) |-> PlacedElement(i)])
                 \o <<<<"]">>>>

\* what holds of the tuple rendering: the claim of C10 for the tuples whose
\* elements before the last render to at most one line
TupleOfSingleLines ==
  (/\ walkPc = "returned" /\ codec.kind = "tuple"
   /\ \A i \in 1..(Len(codec.subCodecs) - 1) : Len(ElementFragment(i)) <= 1) =>
    fragment = <<<<"[">>>>
                 \o Flatten([i \in 1..Len(codec.subCodecs) |-> PlacedElement(i)])
                 \o <<<<"]">>>>
====
